---- MODULE Spec2Model ----
(***************************************************************************)
(* Fire-spread prediction engine of RapidResponseAI                        *)
(* (backend/agents/prediction.py, backend/agents/prediction_helpers.py).   *)
(*                                                                         *)
(* Numbers are fixed point.  Python floats are modelled by exact rationals *)
(* over a fixed denominator; the inputs are finite numbers (no NaN, no     *)
(* infinity):                                                              *)
(*   wind speed            1/100 m/s                                       *)
(*   wind speed (km/h)     1/250 km/h   (3.6/100 = 9/250)                  *)
(*   factors.wind_speed_kmh 1/100 km/h  (the code rounds to 2 decimals)    *)
(*   temperature, humidity, wind direction: whole units                    *)
(*   wind_factor 1/12500, temp_factor 1/40, humidity_factor 1/100          *)
(*   spread rate           1/RateDen km/h                                  *)
(*   coordinates           1/10000 degree (lon = x, lat = y)               *)
(*   spread rate passed to _calculate_arrival_times: 1/1000 km/h           *)
(*   directional factor    1/2000                                          *)
(*   hours_until_arrival   1/10 h (the code rounds to 1 decimal)           *)
(*   buffer distance       1/1000 km                                       *)
(*   area_km2              1/100 km^2                                      *)
(*   timeline confidence   1/100                                           *)
(* A fire boundary is an axis-aligned rectangle; arctan2 and cos are       *)
(* rational approximations in whole degrees and 1/1000: arctan2 is exact   *)
(* on the eight compass directions, cos (Bhaskara) at 0, 60, 90, 120, 180. *)
(* A Python value read from a mapping is a record [k, n]: k = "num" for a  *)
(* number n, "missing" for an absent key, "bad" for a value that is not a  *)
(* number (None, a string, a list).  A nested mapping carries k = "map",   *)
(* "missing" or "bad" (a value without .get).                              *)
(***************************************************************************)
EXTENDS Integers, Sequences, FiniteSets, TLC

VARIABLES
    pc,           \* position of the caller: "ready" | "done"
    calls,        \* number of calls made so far
    weather,      \* argument of _calculate_fire_spread_rate
    rateOut,      \* its outcome
    prevWeather,  \* argument of the previous call
    prevRateOut,  \* outcome of the previous call
    arrIn,        \* arguments of _calculate_arrival_times
    arrOut,       \* its outcome
    prevArrIn,    \* arguments of the previous call
    prevArrOut,   \* outcome of the previous call
    anIn,         \* arguments of PredictionAgent.analyze and the build
    anOut,        \* its outcome
    agent,        \* the attributes of the PredictionAgent instance
    anLog,        \* the calls of analyze made so far, in order: input and outcome
    tlIn,         \* arguments of _generate_timeline_predictions and the build
    tlOut,        \* its outcome
    prevTlIn,     \* arguments of the previous call
    prevTlOut,    \* outcome of the previous call
    expIn,        \* arguments of _expand_polygon
    expOut,       \* its outcome
    dfIn,         \* arguments of _calculate_directional_factor
    dfOut,        \* its outcome
    active_disasters, \* DisasterOrchestrator.active_disasters, by disaster id
    runs,         \* the runs of the processing pipeline: position, locals, events emitted
    unawaited     \* coroutines created by start_processing and never awaited

rateVars == <<weather, rateOut, prevWeather, prevRateOut>>
arrVars == <<arrIn, arrOut, prevArrIn, prevArrOut>>
anVars == <<anIn, anOut>>
agentVars == <<agent, anLog>>
tlVars == <<tlIn, tlOut, prevTlIn, prevTlOut>>
expVars == <<expIn, expOut>>
dfVars == <<dfIn, dfOut>>
geoVars == <<tlVars, expVars, dfVars>>
orchVars == <<active_disasters, runs, unawaited>>
vars == <<pc, calls, rateVars, arrVars, anVars, agentVars, geoVars, orchVars>>

\* ------------------------------------------------------------------------
\* Bounds
\* ------------------------------------------------------------------------
MaxCalls == 2
MaxPoints == 2
MaxAnalyzeCalls == 3

\* ------------------------------------------------------------------------
\* Python values
\* ------------------------------------------------------------------------
Num(n) == [k |-> "num", n |-> n]
Missing == [k |-> "missing", n |-> 0]
NonNumeric == [k |-> "bad", n |-> 0]

Max(a, b) == IF a >= b THEN a ELSE b
Min(a, b) == IF a <= b THEN a ELSE b
Abs(a) == IF a < 0 THEN -a ELSE a

\* round(p/q) to the nearest integer, ties to even (Python's round), q > 0
RoundDiv(p, q) ==
    LET f == p \div q
        r == p % q
    IN  IF 2 * r < q THEN f
        ELSE IF 2 * r > q THEN f + 1
        ELSE IF f % 2 = 0 THEN f ELSE f + 1

\* dict.get(key, default)
DictGet(v, default) == IF v.k = "missing" THEN default ELSE v

\* isinstance(v, (int, float))
IsNumber(v) == v.k = "num"

\* ------------------------------------------------------------------------
\* Configuration constants (prediction_helpers.py)
\* ------------------------------------------------------------------------
BASE_SPREAD_RATE_KMH == 2
WIND_SPEED_DENOMINATOR == 50
TEMP_REFERENCE == 20
TEMP_DENOMINATOR == 40
\* HUMIDITY_BASE = 1.5, in 1/100
HUMIDITY_BASE == 150
HUMIDITY_DENOMINATOR == 100
\* MIN_WIND_FACTOR = 0.5 in 1/12500, MIN_TEMP_FACTOR = 0.5 in 1/40,
\* MIN_HUMIDITY_FACTOR = 0.1 in 1/100
MIN_WIND_FACTOR == 6250
MIN_TEMP_FACTOR == 20
MIN_HUMIDITY_FACTOR == 10
\* DEFAULT_WIND_SPEED_MS = 10.0 m/s in 1/100 m/s
DEFAULT_WIND_SPEED_MS == 1000
DEFAULT_WIND_DIRECTION == 0
DEFAULT_TEMPERATURE == 20
DEFAULT_HUMIDITY == 50
\* MS_TO_KMH = 3.6: a speed in 1/100 m/s times 9 is that speed in 1/250 km/h
MS_TO_KMH == 9

\* denominator of wind_factor: 250 * WIND_SPEED_DENOMINATOR
WindFactorDen == 250 * WIND_SPEED_DENOMINATOR
\* denominator of the spread rate
RateDen == WindFactorDen * TEMP_DENOMINATOR * HUMIDITY_DENOMINATOR

\* ------------------------------------------------------------------------
\* _calculate_fire_spread_rate
\* ------------------------------------------------------------------------
NoFactors ==
    [wind_speed_kmh |-> 0, wind_direction_deg |-> 0,
     temperature_c |-> 0, humidity_percent |-> 0]

RateRaised(e) == [status |-> "raised", exc |-> e, spread_rate |-> 0, factors |-> NoFactors]

RateReturned(r, f) == [status |-> "ok", exc |-> "", spread_rate |-> r, factors |-> f]

NotCalled == [status |-> "none", exc |-> "", spread_rate |-> 0, factors |-> NoFactors]

\* wind_data.get('speed', DEFAULT_WIND_SPEED_MS), validated (lines 101-104)
WindSpeedMs(wind_data) ==
    LET wind_speed_ms == DictGet(wind_data.speed, Num(DEFAULT_WIND_SPEED_MS))
    IN  IF ~IsNumber(wind_speed_ms) \/ wind_speed_ms.n < 0
        THEN DEFAULT_WIND_SPEED_MS ELSE wind_speed_ms.n

\* main_data.get('temp', DEFAULT_TEMPERATURE), validated (lines 108-111)
Temperature(main_data) ==
    LET temperature == DictGet(main_data.temp, Num(DEFAULT_TEMPERATURE))
    IN  IF ~IsNumber(temperature) THEN DEFAULT_TEMPERATURE ELSE temperature.n

\* main_data.get('humidity', DEFAULT_HUMIDITY), validated (lines 114-117)
Humidity(main_data) ==
    LET humidity == DictGet(main_data.humidity, Num(DEFAULT_HUMIDITY))
    IN  IF ~IsNumber(humidity) \/ humidity.n < 0 \/ humidity.n > 100
        THEN DEFAULT_HUMIDITY ELSE humidity.n

WindDirectionNoUpperCheck(wind_data) ==
    LET wind_direction == DictGet(wind_data.deg, Num(DEFAULT_WIND_DIRECTION))
    IN  IF ~IsNumber(wind_direction) \/ wind_direction.n < 0
        THEN DEFAULT_WIND_DIRECTION ELSE wind_direction.n

\* wind_data.get('deg', DEFAULT_WIND_DIRECTION), validated (lines 120-123)
WindDirection(wind_data) ==
    LET wind_direction == DictGet(wind_data.deg, Num(DEFAULT_WIND_DIRECTION))
    IN  IF ~IsNumber(wind_direction) \/ wind_direction.n < 0 \/ wind_direction.n >= 360
        THEN DEFAULT_WIND_DIRECTION ELSE wind_direction.n

\* wind_speed = wind_speed_ms * MS_TO_KMH, in 1/250 km/h (line 105)
WindSpeedKmh(wind_speed_ms) == wind_speed_ms * MS_TO_KMH

\* round(wind_speed, 2), in 1/100 km/h (line 144)
RoundWindSpeed(wind_speed) == RoundDiv(wind_speed * 100, 250)

\* the m/s value divided by 50 instead of the km/h value
WindFactorMs(wind_speed) ==
    Max(MIN_WIND_FACTOR, WindFactorDen + (wind_speed * 250) \div (MS_TO_KMH * 100))

WindFactorMin(wind_speed) == Min(MIN_WIND_FACTOR, WindFactorDen + wind_speed)

\* wind_factor = max(MIN_WIND_FACTOR, 1 + wind_speed / 50), in 1/12500
\* (lines 127, 136)
WindFactor(wind_speed) == Max(MIN_WIND_FACTOR, WindFactorDen + wind_speed)

TempFactorNoFloor(temperature) == TEMP_DENOMINATOR + (temperature - TEMP_REFERENCE)

\* temp_factor = max(MIN_TEMP_FACTOR, 1 + (temperature - 20) / 40), in 1/40
\* (lines 130, 137)
TempFactor(temperature) ==
    Max(MIN_TEMP_FACTOR, TEMP_DENOMINATOR + (temperature - TEMP_REFERENCE))

\* humidity_factor = max(MIN_HUMIDITY_FACTOR, 1.5 - humidity / 100), in 1/100
\* (lines 133, 138)
HumidityFactor(humidity) == Max(MIN_HUMIDITY_FACTOR, HUMIDITY_BASE - humidity)

\* the validated fields and the numbers computed from them (lines 100-151)
SpreadRateBody(wind_data, main_data) ==
    LET wind_speed == WindSpeedKmh(WindSpeedMs(wind_data))
        temperature == Temperature(main_data)
        humidity == Humidity(main_data)
        wind_direction == WindDirection(wind_data)
        spread_rate == BASE_SPREAD_RATE_KMH * WindFactor(wind_speed)
                          * TempFactor(temperature) * HumidityFactor(humidity)
    IN  RateReturned(spread_rate,
            [wind_speed_kmh |-> RoundWindSpeed(wind_speed),
             wind_direction_deg |-> wind_direction,
             temperature_c |-> temperature,
             humidity_percent |-> humidity])

\* weather.get('wind', {}) and weather.get('main', {}); .get on a value that
\* is not a mapping raises AttributeError, which the except clause turns into
\* ValueError (lines 95-98, 153-155)
EmptyWind == [k |-> "map", speed |-> Missing, deg |-> Missing]
EmptyMain == [k |-> "map", temp |-> Missing, humidity |-> Missing]

NoWind == [k |-> "missing", speed |-> Missing, deg |-> Missing]
NoMain == [k |-> "missing", temp |-> Missing, humidity |-> Missing]

\* {}
EmptyWeather == [k |-> "map", wind |-> NoWind, main |-> NoMain]
\* a weather value that is not a mapping
BadWeather == [k |-> "bad", wind |-> NoWind, main |-> NoMain]

calculate_fire_spread_rate(w) ==
    IF w.k # "map" THEN RateRaised("ValueError")
    ELSE LET wind_data == IF w.wind.k = "missing" THEN EmptyWind ELSE w.wind
             main_data == IF w.main.k = "missing" THEN EmptyMain ELSE w.main
         IN  IF wind_data.k # "map" \/ main_data.k # "map"
             THEN RateRaised("ValueError")
             ELSE SpreadRateBody(wind_data, main_data)

\* ------------------------------------------------------------------------
\* Geometry (shapely) on the grid
\* ------------------------------------------------------------------------
\* KM_PER_DEGREE = 111.1, in 1/10 km
KM_PER_DEGREE == 1111
\* UPWIND_FACTOR_MIN = 0.5, in 1/2000
UPWIND_FACTOR_MIN == 1000
\* ARRIVAL_TIME_HIGH_CONFIDENCE_THRESHOLD = 6.0 hours
ARRIVAL_TIME_HIGH_CONFIDENCE_THRESHOLD == 6
\* float('inf')
Infinity == 2000000000

\* A perimeter, as GeoJSON or as the shapely geometry made from it: k is
\* "none" (None or {}), "empty" (a polygon without coordinates), "poly" (the
\* rectangle x0..x1 by y0..y1 buffered by buf) or "malformed" (a mapping
\* that shape() rejects).
NoBoundary == [k |-> "none", x0 |-> 0, y0 |-> 0, x1 |-> 0, y1 |-> 0, buf |-> 0]
\* a geometry without coordinates: shapely's truth value of it is False
EmptyBoundary == [k |-> "empty", x0 |-> 0, y0 |-> 0, x1 |-> 0, y1 |-> 0, buf |-> 0]
MalformedBoundary == [k |-> "malformed", x0 |-> 0, y0 |-> 0, x1 |-> 0, y1 |-> 0, buf |-> 0]
Rect(x0, y0, x1, y1) ==
    [k |-> "poly", x0 |-> x0, y0 |-> y0, x1 |-> x1, y1 |-> y1, buf |-> 0]

\* bool(geometry): not None and not empty
Truthy(geom) == geom.k = "poly"

\* floor of the square root, by bisection on lo..hi
RECURSIVE SqrtBetween(_, _, _)
SqrtBetween(n, lo, hi) ==
    IF lo >= hi THEN lo
    ELSE LET mid == (lo + hi + 1) \div 2
         IN  IF mid * mid <= n THEN SqrtBetween(n, mid, hi)
             ELSE SqrtBetween(n, lo, mid - 1)

ISqrt(n) == SqrtBetween(n, 0, Min(n, 46340))

\* boundary_geom.centroid
Centroid(geom) == [x |-> (geom.x0 + geom.x1) \div 2, y |-> (geom.y0 + geom.y1) \div 2]

\* boundary_geom.distance(point_geom), in 1/10000 degree; 0 inside the polygon
GeomDistance(geom, pt) ==
    LET dx == Max(0, Max(geom.x0 - pt.x, pt.x - geom.x1))
        dy == Max(0, Max(geom.y0 - pt.y, pt.y - geom.y1))
    IN  ISqrt(dx * dx + dy * dy)

\* _distance_to_boundary, as a pair: the distance in degrees (1/10000) to be
\* multiplied by KM_PER_DEGREE, or infinity
distance_to_boundary(geom, pt) ==
    IF ~Truthy(geom) THEN [inf |-> TRUE, deg |-> 0]
    ELSE [inf |-> FALSE, deg |-> GeomDistance(geom, pt)]

\* arctan(p/q) in whole degrees for 0 <= p <= q, q > 0, by the rational
\* approximation z * (45 + 16 * (1 - z)); exact at z = 0 and z = 1
ArcTanDeg(p, q) == RoundDiv(p * (45 * q + 16 * (q - p)), q * q)

\* np.degrees(np.arctan2(dy, dx)), in whole degrees in (-180, 180]
ArcTan2Deg(dy, dx) ==
    LET ax == Abs(dx)
        ay == Abs(dy)
        first == IF ax = 0 /\ ay = 0 THEN 0
                 ELSE IF ay <= ax THEN ArcTanDeg(ay, ax)
                 ELSE 90 - ArcTanDeg(ax, ay)
    IN  IF dx >= 0 /\ dy >= 0 THEN first
        ELSE IF dx < 0 /\ dy >= 0 THEN 180 - first
        ELSE IF dx < 0 /\ dy < 0 THEN first - 180
        ELSE -first

\* np.cos(np.radians(a)) in 1/1000 for -360 < a < 360
CosMilli(a) ==
    LET b == Abs(a)
        c == IF b > 180 THEN 360 - b ELSE b
        q(x) == RoundDiv(1000 * (32400 - 4 * x * x), 32400 + x * x)
    IN  IF c <= 90 THEN q(c) ELSE -q(180 - c)

\* ------------------------------------------------------------------------
\* _calculate_directional_factor
\* ------------------------------------------------------------------------
\* wind_angle = (wind_dir - 180) % 360 (line 383)
WindAngle(wind_dir) == (wind_dir - 180) % 360

\* angle_diff = 180 - abs(abs(target_angle - wind_angle) - 180) (line 386)
AngleDiff(target_angle, wind_angle) ==
    180 - Abs(Abs(target_angle - wind_angle) - 180)

\* lines 376-399; wind_dir is a Python value, and arithmetic on one that is
\* not a number raises TypeError, which the except clause answers with 1.0
calculate_directional_factor(fire_center, target_point, wind_dir) ==
    IF ~IsNumber(wind_dir) THEN 2000
    ELSE LET dx == target_point.x - fire_center.x
             dy == target_point.y - fire_center.y
             target_angle == ArcTan2Deg(dy, dx)
             angle_diff == AngleDiff(target_angle, WindAngle(wind_dir.n))
             factor == CosMilli(angle_diff) + 1000
         IN  UPWIND_FACTOR_MIN + factor

\* ------------------------------------------------------------------------
\* _calculate_arrival_times
\* ------------------------------------------------------------------------
ArrivalEntryProduct(boundary_geom, fire_center, point_data, spread_rate, wind_dir) ==
    [location |-> point_data.name,
     hours_until_arrival |->
        (GeomDistance(boundary_geom, [x |-> point_data.lon, y |-> point_data.lat])
            * spread_rate) \div 10000,
     confidence |-> "medium"]

\* one entry of the result (lines 488-513); rate in 1/1000 km/h:
\*   hours = (deg/10000 * 111.1) / (rate/1000 * factor/2000)
\*         = deg * 1111 * 20 / (rate * factor)     (1111 = 111.1 * 10)
ArrivalEntry(boundary_geom, fire_center, point_data, spread_rate, wind_dir) ==
    LET point_geom == [x |-> point_data.lon, y |-> point_data.lat]
        distance == distance_to_boundary(boundary_geom, point_geom)
        directional_factor ==
            calculate_directional_factor(fire_center, point_geom, wind_dir)
        effective_spread_rate == spread_rate * directional_factor
        isInf == effective_spread_rate <= 0 \/ distance.inf
        num == distance.deg * KM_PER_DEGREE * 20
        high == ~isInf /\
                num < ARRIVAL_TIME_HIGH_CONFIDENCE_THRESHOLD * effective_spread_rate
    IN  [location |-> point_data.name,
         hours_until_arrival |->
            IF isInf THEN Infinity ELSE RoundDiv(num * 10, effective_spread_rate),
         confidence |-> IF high THEN "high" ELSE "medium"]

\* the loop of lines 485-522: a point without 'lat' or 'lon' raises KeyError
\* inside the loop body and is skipped (point_data.kind = "nokey")
RECURSIVE ArrivalLoop(_, _, _, _, _)
ArrivalLoop(boundary_geom, fire_center, points, spread_rate, wind_dir) ==
    IF points = <<>> THEN <<>>
    ELSE LET rest == ArrivalLoop(boundary_geom, fire_center, Tail(points),
                                 spread_rate, wind_dir)
             p == Head(points)
         IN  IF p.kind # "dict" THEN rest
             ELSE <<ArrivalEntry(boundary_geom, fire_center, p,
                                 spread_rate, wind_dir)>> \o rest

\* insertion of e after the entries whose key is not larger (a stable sort)
RECURSIVE InsertByHours(_, _)
InsertByHours(sorted, e) ==
    IF sorted = <<>> THEN <<e>>
    ELSE IF Head(sorted).hours_until_arrival <= e.hours_until_arrival
         THEN <<Head(sorted)>> \o InsertByHours(Tail(sorted), e)
         ELSE <<e>> \o sorted

RECURSIVE SortFrom(_, _)
SortFrom(sorted, rest) ==
    IF rest = <<>> THEN sorted
    ELSE SortFrom(InsertByHours(sorted, Head(rest)), Tail(rest))

NoSort(results) == results

\* results.sort(key=lambda x: x['hours_until_arrival']) (line 525)
SortByHours(results) == SortFrom(<<>>, results)

RateUsableNotNegative(spread_rate) == spread_rate >= 0

RateUsableAboveOne(spread_rate) == spread_rate > 1000

\* the guard of line 477 passes
RateUsable(spread_rate) == ~(spread_rate <= 0)

\* an element of points that is not a mapping: point_data['lon'] raises
\* TypeError and the handler's point_data.get (line 521) raises
\* AttributeError, which leaves the loop for the outer handler (lines 530-532)
LoopAborts(points) == \E i \in 1..Len(points) : points[i].kind = "notdict"

\* lines 471-532
calculate_arrival_times(boundary_geom, points, spread_rate, wind_dir) ==
    IF ~Truthy(boundary_geom) THEN <<>>
    ELSE IF ~RateUsable(spread_rate) THEN <<>>
    ELSE IF LoopAborts(points) THEN <<>>
    ELSE SortByHours(ArrivalLoop(boundary_geom, Centroid(boundary_geom),
                                 points, spread_rate, wind_dir))

\* ------------------------------------------------------------------------
\* _expand_polygon, _calculate_polygon_area, _generate_timeline_predictions
\* ------------------------------------------------------------------------
\* BASE_CONFIDENCE = 0.75 and CONFIDENCE_DECAY_PER_HOUR = 0.05, in 1/100
BASE_CONFIDENCE == 75
CONFIDENCE_DECAY_PER_HOUR == 5
PREDICTION_HOURS == <<1, 3, 6>>

\* floor(a * m / d) without forming a * m
MulDiv(a, m, d) == (a \div d) * m + ((a % d) * m) \div d

NoPolygonNever(polygon) == FALSE

\* "if not polygon": None and {} are false, any other mapping is true
NoPolygon(polygon) == polygon.k = "none"

\* lines 230-254; distance_km in 1/1000 km.  geom.buffer(distance / 111.1)
\* grows the rectangle by that many 1/10000 degrees; an empty polygon stays
\* empty; shape() of a malformed mapping raises inside the try and the
\* handler returns None
expand_polygon(polygon, distance_km) ==
    IF NoPolygon(polygon) THEN [raised |-> FALSE, geom |-> NoBoundary]
    ELSE IF distance_km < 0 THEN [raised |-> TRUE, geom |-> NoBoundary]
    ELSE IF distance_km = 0 THEN [raised |-> FALSE, geom |-> polygon]
    ELSE IF polygon.k = "malformed" THEN [raised |-> FALSE, geom |-> NoBoundary]
    ELSE IF polygon.k = "empty" THEN [raised |-> FALSE, geom |-> EmptyBoundary]
    ELSE [raised |-> FALSE,
          geom |-> [polygon EXCEPT
                       !.buf = polygon.buf + RoundDiv(distance_km * 100, KM_PER_DEGREE)]]

PlanarAreaNoBuffer(geom) == (geom.x1 - geom.x0) * (geom.y1 - geom.y0)

\* planar area of the buffered rectangle in (1/10000 degree)^2; the quarter
\* circles of shapely's buffer are 16-segment polygons of area 3.1365 r^2 / 4
PlanarArea(geom) ==
    LET w == geom.x1 - geom.x0
        h == geom.y1 - geom.y0
        b == geom.buf
    IN  w * h + 2 * (w + h) * b + MulDiv(b * b, 3137, 1000)

\* km^2 per square degree: KM_PER_DEGREE ** 2 for the planar fallback
\* (line 199); on the WGS84 ellipsoid near latitude 43.7 a degree of
\* longitude is 80.6 km and a degree of latitude 111.1 km (lines 192-194)
KmPerDegreeSquared(geod) == IF geod THEN 8956 ELSE 12321

\* lines 179-206, in 1/100 km^2; geod: pyproj could be imported (lines 12-16)
calculate_polygon_area(polygon, geod) ==
    IF NoPolygon(polygon) THEN 0
    ELSE IF polygon.k # "poly" THEN 0
    ELSE MulDiv(PlanarArea(polygon), KmPerDegreeSquared(geod), 1000) \div 1000

ConfidenceWithoutDecay(hours) == BASE_CONFIDENCE

\* confidence = round(max(0.0, BASE_CONFIDENCE - hours * DECAY), 2), in 1/100
Confidence(hours) == Max(0, BASE_CONFIDENCE - hours * CONFIDENCE_DECAY_PER_HOUR)

UnclampedRate(spread_rate) == spread_rate

ClampedBelowMinusOne(spread_rate) == IF spread_rate < -1 THEN 0 ELSE spread_rate

\* lines 285-287
ClampedRate(spread_rate) == IF spread_rate < 0 THEN 0 ELSE spread_rate

\* lines 283-314; spread_rate in 1/1000 km/h.  The result maps the horizon
\* h to the entry stored under 'hour_<h>'; raised if _expand_polygon raised.
generate_timeline_predictions(current_boundary_geojson, spread_rate, geod) ==
    LET rate == ClampedRate(spread_rate)
        hoursSet == {PREDICTION_HOURS[i] : i \in 1..Len(PREDICTION_HOURS)}
        expanded(h) == expand_polygon(current_boundary_geojson, rate * h)
    IN  [raised |-> \E h \in hoursSet : expanded(h).raised,
         distances |-> {rate * h : h \in hoursSet},
         predictions |->
            [h \in hoursSet |->
                [boundary |-> expanded(h).geom,
                 area_km2 |-> calculate_polygon_area(expanded(h).geom, geod),
                 confidence |-> Confidence(h)]]]

\* ------------------------------------------------------------------------
\* PredictionAgent (prediction.py)
\* ------------------------------------------------------------------------
\* _identify_critical_points: the hard-coded points, as offsets from
\* (-79.8, 43.7) in 1/10000 degree
identify_critical_points ==
    <<[name |-> "Residential Area A", lon |-> -600, lat |-> 350, kind |-> "dict"],
      [name |-> "Highway 410", lon |-> -550, lat |-> 400, kind |-> "dict"],
      [name |-> "Main Street Commercial", lon |-> -500, lat |-> 450, kind |-> "dict"]>>

NoResult ==
    [kind |-> "none", status |-> "", current_spread_rate_kmh |-> 0,
     predictions |-> <<>>, critical_arrival_times |-> <<>>,
     factors |-> NoFactors, outlook |-> ""]

Returned(r) == [status |-> "returned", exc |-> "", msg |-> <<>>, result |-> r]
Raised(e, m) == [status |-> "raised", exc |-> e, msg |-> m, result |-> NoResult]
AnNotCalled == [status |-> "none", exc |-> "", msg |-> <<>>, result |-> NoResult]

\* lines 141-145: data.get('weather') or {}, and the first element of a
\* forecast's 'list'
WeatherOf(data) == IF data.weather_form = "absent" THEN EmptyWeather ELSE data.weather

\* line 152: weather.get('main', {}).get('humidity', factors['humidity_percent'])
RawHumidity(w, factors) ==
    LET main_data == IF w.main.k = "missing" THEN EmptyMain ELSE w.main
    IN  DictGet(main_data.humidity, Num(factors.humidity_percent))

\* lines 155-160: spread_rate in 1/RateDen km/h, wind_speed in 1/100 km/h;
\* comparing a humidity that is not a number raises TypeError
Outlook(spread_rate, wind_speed, humidity) ==
    IF spread_rate >= 6 * RateDen THEN "worsening"
    ELSE IF wind_speed >= 4500 /\ ~IsNumber(humidity) THEN "TypeError"
    ELSE IF wind_speed >= 4500 /\ humidity.n <= 35 THEN "worsening"
    ELSE IF ~(spread_rate <= 3 * RateDen) THEN "guarded"
    ELSE IF ~IsNumber(humidity) THEN "TypeError"
    ELSE IF humidity.n >= 55 THEN "stable"
    ELSE "guarded"

\* a spread rate in 1/RateDen km/h, in 1/1000 km/h
RateMilli(spread_rate) == spread_rate \div (RateDen \div 1000)

\* _model_fire_spread, lines 141-183
model_fire_spread(disaster, data, geod) ==
    LET w == WeatherOf(data)
        perimeter == data.fire_perimeter
        rate == calculate_fire_spread_rate(w)
        outlook == Outlook(rate.spread_rate, rate.factors.wind_speed_kmh,
                           RawHumidity(w, rate.factors))
        timeline == generate_timeline_predictions(perimeter,
                                                  RateMilli(rate.spread_rate), geod)
        geom == IF NoPolygon(perimeter) THEN NoBoundary ELSE perimeter
        arrival_times ==
            calculate_arrival_times(geom, identify_critical_points,
                                    RateMilli(rate.spread_rate),
                                    Num(rate.factors.wind_direction_deg))
    IN  IF perimeter.k = "malformed" THEN Raised("GeometryError", <<>>)
        ELSE IF rate.status = "raised" THEN Raised(rate.exc, <<>>)
        ELSE IF outlook = "TypeError" THEN Raised("TypeError", <<>>)
        ELSE IF timeline.raised
             THEN Raised("ValueError", <<"Buffer distance cannot be negative">>)
        ELSE IF ~disaster.has_location THEN Raised("KeyError", <<"location">>)
        ELSE Returned(
                [kind |-> "wildfire", status |-> "",
                 current_spread_rate_kmh |->
                    RoundDiv(rate.spread_rate, RateDen \div 100),
                 predictions |-> timeline.predictions,
                 critical_arrival_times |-> arrival_times,
                 factors |-> rate.factors,
                 outlook |-> outlook])

\* _predict_july_2020_spread with the configuration of
\* scenarios/july_2020_fire.py: 2.5 * (1 + 25/40) * (1 + 12/30)
\* * (1.5 - 18/100) * 1.3, rounded to 2 decimals
JulySpreadRate == RoundDiv(25 * 65 * 42 * 132 * 13, 120000)

predict_july_2020_spread ==
    Returned(
        [kind |-> "july_2020_backtest", status |-> "",
         current_spread_rate_kmh |-> JulySpreadRate,
         predictions |->
            [h \in {1, 3, 6} |->
                [boundary |-> NoBoundary,
                 area_km2 |-> CASE h = 1 -> 24 [] h = 3 -> 58 [] OTHER -> 120,
                 confidence |-> CASE h = 1 -> 90 [] h = 3 -> 82 [] OTHER -> 70]],
         critical_arrival_times |->
            <<[location |-> "HWY 407 Eastbound Lanes",
               hours_until_arrival |-> 25, confidence |-> "high"],
              [location |-> "Residential Area (Sandalwood Heights)",
               hours_until_arrival |-> 38, confidence |-> "high"],
              [location |-> "HWY 410 On-ramps",
               hours_until_arrival |-> 45, confidence |-> "medium"]>>,
         factors |-> [wind_speed_kmh |-> 2500, wind_direction_deg |-> 270,
                      temperature_c |-> 32, humidity_percent |-> 18],
         outlook |-> "worsening"])

\* BaseAgent.__init__ (base_agent.py): the only attribute of the instance
AgentInit == [name |-> "PredictionAgent"]

\* disaster.get('type', 'unknown') (line 73)
DisasterType(disaster) == IF disaster.type = "" THEN "unknown" ELSE disaster.type

\* line 78
IsJuly2020(scenario_config) == scenario_config = "july_2020_backtest"

\* line 89: PredictionAgent defines no _model_flood_spread, so the attribute
\* lookup raises AttributeError, which lines 102-104 re-raise
ModelFloodSpread == Raised("AttributeError", <<"_model_flood_spread">>)

UnknownTypePlaceholder(disaster_type) ==
    Returned([NoResult EXCEPT !.kind = "placeholder", !.status = "not_implemented"])

\* lines 93-96
UnknownType(disaster_type) ==
    Raised("ValueError", <<"Unknown disaster type: ", disaster_type>>)

\* lines 98-100: a KeyError is raised again as KeyError with a new message
WrapKeyError(out, disaster_type) ==
    IF out.status = "raised" /\ out.exc = "KeyError"
    THEN Raised("KeyError", <<"Missing required data for ", disaster_type,
                              " analysis: ">> \o out.msg)
    ELSE out

AgentKeepsLastType(a, disaster) == [a EXCEPT !.name = DisasterType(disaster)]

\* the instance after a call of analyze: neither analyze nor a function it
\* calls assigns an attribute of self or a module global (lines 43-254)
AgentAfterAnalyze(a, disaster) == a

\* analyze, lines 73-104
analyze(disaster, data, scenario_config, geod) ==
    LET disaster_type == DisasterType(disaster)
    IN  IF IsJuly2020(scenario_config) THEN predict_july_2020_spread
        ELSE IF disaster_type = "wildfire"
             THEN WrapKeyError(model_fire_spread(disaster, data, geod), disaster_type)
        ELSE IF disaster_type = "flood" THEN ModelFloodSpread
        ELSE UnknownType(disaster_type)

\* ------------------------------------------------------------------------
\* Inputs
\* ------------------------------------------------------------------------
SpeedValues == {Missing, NonNumeric, Num(-100), Num(0), Num(100), Num(463), Num(1500)}
DegValues == {Missing, NonNumeric, Num(-1), Num(0), Num(359), Num(360)}
TempValues == {Missing, NonNumeric, Num(-30), Num(20), Num(45)}
HumidityValues == {Missing, NonNumeric, Num(-1), Num(0), Num(40), Num(100), Num(101)}

WindValues ==
    {[k |-> "map", speed |-> s, deg |-> d] : s \in SpeedValues, d \in DegValues}
    \cup {[k |-> "missing", speed |-> Missing, deg |-> Missing],
          [k |-> "bad", speed |-> Missing, deg |-> Missing]}

MainValues ==
    {[k |-> "map", temp |-> t, humidity |-> h] : t \in TempValues, h \in HumidityValues}
    \cup {[k |-> "missing", temp |-> Missing, humidity |-> Missing],
          [k |-> "bad", temp |-> Missing, humidity |-> Missing]}

WeatherValues ==
    {[k |-> "map", wind |-> wd, main |-> mn] : wd \in WindValues, mn \in MainValues}
    \cup {BadWeather}

\* the fire boundary of the tests, a square of 0.01 degree, and a larger one
Boundaries == {NoBoundary, EmptyBoundary, Rect(0, 0, 100, 100), Rect(-200, 0, 200, 100)}

Pt(name, lon, lat) == [name |-> name, lon |-> lon, lat |-> lat, kind |-> "dict"]

\* critical points east, north, north-east and south-west of the centre of
\* the small square, one 0.0536 degree (5.955 km) east of its edge, one
\* inside it, one without coordinates and one that is not a mapping
CriticalPoints ==
    {Pt("East", 450, 50), Pt("North", 50, 650), Pt("NorthEast", 350, 350),
     Pt("SouthWest", -450, -450), Pt("Inside", 50, 50), Pt("FarEast", 636, 50),
     [name |-> "NoCoords", lon |-> 0, lat |-> 0, kind |-> "nokey"],
     [name |-> "", lon |-> 0, lat |-> 0, kind |-> "notdict"]}

PointLists == UNION {[1..n -> CriticalPoints] : n \in 0..MaxPoints}

SpreadRates == {-1000, 0, 1000, 2500, 5000}

WindDirs == {Num(0), Num(90), Num(225), Num(359), NonNumeric}

ArrNotCalled == [status |-> "none", times |-> <<>>]

ArrIdle ==
    /\ arrIn = [boundary |-> NoBoundary, points |-> <<>>, spread_rate |-> 0,
                wind_dir |-> Num(0)]
    /\ arrOut = ArrNotCalled
    /\ prevArrIn = arrIn
    /\ prevArrOut = ArrNotCalled

RateIdle ==
    /\ weather = EmptyWeather
    /\ rateOut = NotCalled
    /\ prevWeather = EmptyWeather
    /\ prevRateOut = NotCalled

\* inputs of PredictionAgent.analyze
DisasterValues ==
    [type : {"wildfire", "flood", "earthquake", ""}, has_location : BOOLEAN]

AnalyzeWeathers ==
    {[k |-> "map",
      wind |-> [k |-> "map", speed |-> sp, deg |-> dg],
      main |-> [k |-> "map", temp |-> t, humidity |-> h]] :
        sp \in {Missing, Num(100), Num(1500)},
        dg \in {Missing, Num(90), Num(360)},
        t \in {Missing, Num(45)},
        h \in {Missing, NonNumeric, Num(20), Num(60), Num(101)}}
    \cup {EmptyWeather, BadWeather,
          [k |-> "map", wind |-> [k |-> "bad", speed |-> Missing, deg |-> Missing],
           main |-> NoMain]}

\* critical points handed over by the caller with the data of the disaster:
\* <<>> when the caller supplies none
CallerPoints == {<<>>, <<Pt("Town A", 450, 50), Pt("School B", 50, 650)>>}

DataValues ==
    {[weather_form |-> "absent", weather |-> EmptyWeather, fire_perimeter |-> fp,
      critical_points |-> cp] :
        fp \in {NoBoundary, Rect(0, 0, 100, 100), MalformedBoundary},
        cp \in CallerPoints}
    \cup [weather_form : {"current", "forecast"}, weather : AnalyzeWeathers,
          fire_perimeter : {NoBoundary, Rect(0, 0, 100, 100), MalformedBoundary},
          critical_points : CallerPoints]

\* no scenario_config, the July 2020 scenario, another scenario
ScenarioValues == {"", "july_2020_backtest", "march_2022_backtest"}

AnIdle ==
    /\ anIn = [disaster |-> [type |-> "", has_location |-> FALSE],
               data |-> [weather_form |-> "absent", weather |-> EmptyWeather,
                         fire_perimeter |-> NoBoundary, critical_points |-> <<>>],
               scenario_config |-> "", geod |-> FALSE]
    /\ anOut = AnNotCalled

AgentIdle ==
    /\ agent = AgentInit
    /\ anLog = <<>>

\* inputs of _generate_timeline_predictions: no perimeter, a mapping that is
\* not a polygon, the square of the tests, a wider rectangle and a
\* degenerate one (a line without area); spread rates in 1/1000 km/h
TimelinePolygons ==
    {NoBoundary, MalformedBoundary, Rect(0, 0, 100, 100), Rect(-200, 0, 200, 100),
     Rect(0, 0, 100, 0)}

TimelineRates == {-2500, -1, 0, 500, 1000, 2500, 5000}

TlNotCalled == [status |-> "none", distances |-> {}, predictions |-> <<>>]

TlIdle ==
    /\ tlIn = [polygon |-> NoBoundary, spread_rate |-> 0, geod |-> FALSE]
    /\ tlOut = TlNotCalled
    /\ prevTlIn = tlIn
    /\ prevTlOut = TlNotCalled

\* inputs of _expand_polygon: distances in 1/1000 km
ExpandPolygons == TimelinePolygons \cup {EmptyBoundary, Rect(0, 0, 300, 300)}

ExpandDistances == {-5000, -1000, -1, 0, 1, 500, 1000, 2500, 7500, 15000}

ExpNotCalled == [status |-> "none", geom |-> NoBoundary]

ExpIdle ==
    /\ expIn = [polygon |-> NoBoundary, distance_km |-> 0]
    /\ expOut = ExpNotCalled

\* inputs of _calculate_directional_factor: a fire centre, a target at one
\* of the eight compass bearings from it, at an oblique bearing or at the
\* centre itself, or None in place of the target point
Bearings == {0, 45, 90, 135, 180, 225, 270, 315}

\* the offset of a point lying at compass bearing b (clockwise from north)
\* from the centre, x to the east and y to the north
BearingOffset(b) ==
    CASE b = 0 -> [x |-> 0, y |-> 100]
      [] b = 45 -> [x |-> 100, y |-> 100]
      [] b = 90 -> [x |-> 100, y |-> 0]
      [] b = 135 -> [x |-> 100, y |-> -100]
      [] b = 180 -> [x |-> 0, y |-> -100]
      [] b = 225 -> [x |-> -100, y |-> -100]
      [] b = 270 -> [x |-> -100, y |-> 0]
      [] OTHER -> [x |-> -100, y |-> 100]

FireCentres == {[x |-> 0, y |-> 0], [x |-> 50, y |-> 50]}

TargetOffsets ==
    {BearingOffset(b) : b \in Bearings}
    \cup {[x |-> 0, y |-> 0], [x |-> -500, y |-> 500], [x |-> 300, y |-> -650]}

FactorWindDirs ==
    {Num(b) : b \in Bearings} \cup {Num(10), Num(350), Num(360), Num(-90), NonNumeric}

DfNotCalled == [status |-> "none", factor |-> 0, reached |-> FALSE, angle_diff |-> 0]

DfIdle ==
    /\ dfIn = [fire_center |-> [x |-> 0, y |-> 0], target_point |-> [x |-> 0, y |-> 0],
               has_target |-> TRUE, wind_dir |-> Num(0)]
    /\ dfOut = DfNotCalled

GeoIdle == TlIdle /\ ExpIdle /\ DfIdle

\* ------------------------------------------------------------------------
\* DisasterOrchestrator and the socket handlers: values
\* ------------------------------------------------------------------------
MaxRuns == 2
MaxStartProcessing == 1

RunIds == 1..MaxRuns

\* "d1" is the id the clients subscribe to, "d2" an id nobody ever creates
SubscribedId == "d1"
DisasterIds == {"d1", "d2"}

\* the trigger_data of a subscribe_disaster event: JSON null, a mapping whose
\* 'metadata' is not a mapping, and mappings of the two scenarios and of
\* any other place
TriggerData == {"null", "malformed", "july", "march", "other"}

NoPlan == [source |-> "none", run |-> 0]
FinalPlan(r) == [source |-> "agents", run |-> r]
CachedPlan == [source |-> "cached_fallback", run |-> 0]

NoDisaster == [status |-> "absent", plan |-> NoPlan, error |-> "none", trigger |-> "none"]
NewDisaster(trigger_data) ==
    [status |-> "initializing", plan |-> NoPlan, error |-> "none",
     trigger |-> trigger_data]

ProgressEvent(n) == [event |-> "progress", progress |-> n, status |-> "none"]
StatusEvent(s) == [event |-> "disaster_status", progress |-> -1, status |-> s]
CompleteEvent == [event |-> "disaster_complete", progress |-> -1, status |-> "none"]
ErrorEvent == [event |-> "disaster_error", progress |-> -1, status |-> "none"]

\* DisasterOrchestrator._emit with a socketio server attached
emit(events, e) == Append(events, e)

FetchSequence ==
    << [key |-> "satellite", progress_pct |-> 12],
       [key |-> "weather_current", progress_pct |-> 14],
       [key |-> "weather_forecast", progress_pct |-> 16],
       [key |-> "population", progress_pct |-> 18],
       [key |-> "infrastructure", progress_pct |-> 20],
       [key |-> "roads", progress_pct |-> 22] >>

AgentProgress == <<35, 45, 55, 65, 75>>
FallbackProgress == <<20, 40, 60, 80, 100>>

NoOutcome ==
    [kind |-> "none", exc |-> "none", plan |-> NoPlan, status |-> "none",
     stored |-> NoPlan, error |-> "none"]

IdleRun ==
    [pc |-> "idle", via |-> "none", id |-> "none", trigger_data |-> "none",
     results |-> <<>>, step |-> 0, events |-> <<>>, exc |-> "none",
     final_plan |-> NoPlan, outcome |-> NoOutcome]

OrchIdle ==
    /\ active_disasters = [i \in DisasterIds |-> NoDisaster]
    /\ runs = [r \in RunIds |-> IdleRun]
    /\ unawaited = 0

\* ------------------------------------------------------------------------
\* Calls of _calculate_fire_spread_rate
\* ------------------------------------------------------------------------
InitRate ==
    /\ pc = "ready"
    /\ calls = 0
    /\ OrchIdle
    /\ weather \in WeatherValues
    /\ rateOut = NotCalled
    /\ prevWeather = EmptyWeather
    /\ prevRateOut = NotCalled
    /\ ArrIdle
    /\ AnIdle
    /\ AgentIdle
    /\ GeoIdle

CalculateFireSpreadRate ==
    /\ pc = "ready"
    /\ rateOut' = calculate_fire_spread_rate(weather)
    /\ pc' = "done"
    /\ calls' = calls + 1
    /\ UNCHANGED <<weather, prevWeather, prevRateOut, arrVars, anVars, agentVars, geoVars, orchVars>>

\* the caller takes a second observation that differs from the last one in
\* wind speed only
NextObservation ==
    /\ pc = "done"
    /\ calls < MaxCalls
    /\ weather.k = "map" /\ weather.wind.k = "map"
    /\ \E s \in SpeedValues :
          /\ s # weather.wind.speed
          /\ weather' = [weather EXCEPT !.wind.speed = s]
    /\ prevWeather' = weather
    /\ prevRateOut' = rateOut
    /\ rateOut' = NotCalled
    /\ pc' = "ready"
    /\ UNCHANGED <<calls, arrVars, anVars, agentVars, geoVars, orchVars>>

NextRate == CalculateFireSpreadRate \/ NextObservation

SpecRate == InitRate /\ [][NextRate]_vars

\* ------------------------------------------------------------------------
\* Calls of _calculate_arrival_times
\* ------------------------------------------------------------------------
InitArrival ==
    /\ pc = "ready"
    /\ calls = 0
    /\ OrchIdle
    /\ RateIdle
    /\ arrIn \in [boundary : Boundaries, points : PointLists,
                  spread_rate : SpreadRates, wind_dir : WindDirs]
    /\ arrOut = ArrNotCalled
    /\ prevArrIn = [boundary |-> NoBoundary, points |-> <<>>, spread_rate |-> 0,
                    wind_dir |-> Num(0)]
    /\ prevArrOut = ArrNotCalled
    /\ AnIdle
    /\ AgentIdle
    /\ GeoIdle

CalculateArrivalTimes ==
    /\ pc = "ready"
    /\ arrOut' = [status |-> "ok",
                  times |-> calculate_arrival_times(arrIn.boundary, arrIn.points,
                                                    arrIn.spread_rate, arrIn.wind_dir)]
    /\ pc' = "done"
    /\ calls' = calls + 1
    /\ UNCHANGED <<arrIn, prevArrIn, prevArrOut, rateVars, anVars, agentVars, geoVars, orchVars>>

\* the caller estimates the same points again with another spread rate
NextArrivalRate ==
    /\ pc = "done"
    /\ calls < MaxCalls
    /\ \E r \in SpreadRates :
          /\ r # arrIn.spread_rate
          /\ arrIn' = [arrIn EXCEPT !.spread_rate = r]
    /\ prevArrIn' = arrIn
    /\ prevArrOut' = arrOut
    /\ arrOut' = ArrNotCalled
    /\ pc' = "ready"
    /\ UNCHANGED <<calls, rateVars, anVars, agentVars, geoVars, orchVars>>

NextArrival == CalculateArrivalTimes \/ NextArrivalRate

SpecArrival == InitArrival /\ [][NextArrival]_vars


\* ------------------------------------------------------------------------
\* Calls of PredictionAgent.analyze
\* ------------------------------------------------------------------------
Init ==
    /\ pc = "ready"
    /\ calls = 0
    /\ OrchIdle
    /\ RateIdle
    /\ ArrIdle
    /\ anIn \in [disaster : DisasterValues, data : DataValues,
                 scenario_config : ScenarioValues, geod : BOOLEAN]
    /\ anOut = AnNotCalled
    /\ AgentIdle
    /\ GeoIdle

Analyze ==
    /\ pc = "ready"
    /\ anOut' = analyze(anIn.disaster, anIn.data, anIn.scenario_config, anIn.geod)
    /\ agent' = AgentAfterAnalyze(agent, anIn.disaster)
    /\ anLog' = Append(anLog, [input |-> anIn, outcome |-> anOut'])
    /\ pc' = "done"
    /\ calls' = calls + 1
    /\ UNCHANGED <<anIn, rateVars, arrVars, geoVars, orchVars>>

Next == Analyze

Spec == Init /\ [][Next]_vars

\* ------------------------------------------------------------------------
\* Repeated calls of PredictionAgent.analyze on one instance, as the
\* orchestrator makes them for several disasters (orchestrator.py line 44)
\* ------------------------------------------------------------------------
\* the weather of the docstring example and a hot, dry, windy one
MildWeather ==
    [k |-> "map", wind |-> [k |-> "map", speed |-> Num(500), deg |-> Num(90)],
     main |-> [k |-> "map", temp |-> Num(25), humidity |-> Num(40)]]
SevereWeather ==
    [k |-> "map", wind |-> [k |-> "map", speed |-> Num(1500), deg |-> Num(270)],
     main |-> [k |-> "map", temp |-> Num(45), humidity |-> Num(20)]]

RepeatedDisasters ==
    {[type |-> "wildfire", has_location |-> TRUE],
     [type |-> "wildfire", has_location |-> FALSE],
     [type |-> "flood", has_location |-> TRUE],
     [type |-> "earthquake", has_location |-> TRUE]}

RepeatedData ==
    [weather_form : {"current"}, weather : {MildWeather, SevereWeather},
     fire_perimeter : {Rect(0, 0, 100, 100)},
     critical_points : {<<>>}]

RepeatedCalls ==
    [disaster : RepeatedDisasters, data : RepeatedData,
     scenario_config : {"", "july_2020_backtest"}]

WithBuild(call, geod) ==
    [disaster |-> call.disaster, data |-> call.data,
     scenario_config |-> call.scenario_config, geod |-> geod]

InitRepeated ==
    /\ pc = "ready"
    /\ calls = 0
    /\ OrchIdle
    /\ RateIdle
    /\ ArrIdle
    /\ \E c \in RepeatedCalls, g \in BOOLEAN : anIn = WithBuild(c, g)
    /\ anOut = AnNotCalled
    /\ AgentIdle
    /\ GeoIdle

\* the next call on the same instance, for the same or for another disaster
NextCall ==
    /\ pc = "done"
    /\ calls < MaxAnalyzeCalls
    /\ \E c \in RepeatedCalls : anIn' = WithBuild(c, anIn.geod)
    /\ anOut' = AnNotCalled
    /\ pc' = "ready"
    /\ UNCHANGED <<calls, agentVars, rateVars, arrVars, geoVars, orchVars>>

NextRepeated == Analyze \/ NextCall

SpecRepeated == InitRepeated /\ [][NextRepeated]_vars

\* ------------------------------------------------------------------------
\* Calls of _generate_timeline_predictions
\* ------------------------------------------------------------------------
InitTimeline ==
    /\ pc = "ready"
    /\ calls = 0
    /\ OrchIdle
    /\ RateIdle
    /\ ArrIdle
    /\ AnIdle
    /\ AgentIdle
    /\ tlIn \in [polygon : TimelinePolygons, spread_rate : TimelineRates,
                 geod : BOOLEAN]
    /\ tlOut = TlNotCalled
    /\ prevTlIn = [polygon |-> NoBoundary, spread_rate |-> 0, geod |-> FALSE]
    /\ prevTlOut = TlNotCalled
    /\ ExpIdle
    /\ DfIdle

GenerateTimelinePredictions ==
    /\ pc = "ready"
    /\ LET r == generate_timeline_predictions(tlIn.polygon, tlIn.spread_rate,
                                              tlIn.geod)
       IN  tlOut' = IF r.raised
                    THEN [status |-> "raised", distances |-> r.distances,
                          predictions |-> <<>>]
                    ELSE [status |-> "returned", distances |-> r.distances,
                          predictions |-> r.predictions]
    /\ pc' = "done"
    /\ calls' = calls + 1
    /\ UNCHANGED <<tlIn, prevTlIn, prevTlOut, rateVars, arrVars, anVars,
                   agentVars, expVars, dfVars, orchVars>>

\* the caller projects the same perimeter again with another spread rate
NextSpreadRate ==
    /\ pc = "done"
    /\ calls < MaxCalls
    /\ \E r \in TimelineRates :
          /\ r # tlIn.spread_rate
          /\ tlIn' = [tlIn EXCEPT !.spread_rate = r]
    /\ prevTlIn' = tlIn
    /\ prevTlOut' = tlOut
    /\ tlOut' = TlNotCalled
    /\ pc' = "ready"
    /\ UNCHANGED <<calls, rateVars, arrVars, anVars, agentVars, expVars, dfVars, orchVars>>

NextTimeline == GenerateTimelinePredictions \/ NextSpreadRate

SpecTimeline == InitTimeline /\ [][NextTimeline]_vars

\* ------------------------------------------------------------------------
\* Calls of _expand_polygon
\* ------------------------------------------------------------------------
InitExpand ==
    /\ pc = "ready"
    /\ calls = 0
    /\ OrchIdle
    /\ RateIdle
    /\ ArrIdle
    /\ AnIdle
    /\ AgentIdle
    /\ TlIdle
    /\ expIn \in [polygon : ExpandPolygons, distance_km : ExpandDistances]
    /\ expOut = ExpNotCalled
    /\ DfIdle

ExpandPolygon ==
    /\ pc = "ready"
    /\ LET r == expand_polygon(expIn.polygon, expIn.distance_km)
       IN  expOut' = [status |-> IF r.raised THEN "raised" ELSE "returned",
                      geom |-> r.geom]
    /\ pc' = "done"
    /\ calls' = calls + 1
    /\ UNCHANGED <<expIn, rateVars, arrVars, anVars, agentVars, tlVars, dfVars, orchVars>>

NextExpand == ExpandPolygon

SpecExpand == InitExpand /\ [][NextExpand]_vars

\* ------------------------------------------------------------------------
\* Calls of _calculate_directional_factor
\* ------------------------------------------------------------------------
directional_factor_error_zero(fire_center, target_point, has_target, wind_dir) ==
    IF ~has_target THEN 0
    ELSE calculate_directional_factor(fire_center, target_point, wind_dir)

\* with None in place of the target point, target_point.x raises
\* AttributeError inside the try (line 378) and line 399 returns 1.0
directional_factor_call(fire_center, target_point, has_target, wind_dir) ==
    IF ~has_target THEN 2000
    ELSE calculate_directional_factor(fire_center, target_point, wind_dir)

\* line 386 is reached: neither line 378 nor line 383 raised
AngleDiffReached(has_target, wind_dir) == has_target /\ IsNumber(wind_dir)

\* the local angle_diff after line 386 (0 when the line is not reached)
angle_diff_local(fire_center, target_point, has_target, wind_dir) ==
    IF ~AngleDiffReached(has_target, wind_dir) THEN 0
    ELSE AngleDiff(ArcTan2Deg(target_point.y - fire_center.y,
                              target_point.x - fire_center.x),
                   WindAngle(wind_dir.n))

InitDirectional ==
    /\ pc = "ready"
    /\ calls = 0
    /\ OrchIdle
    /\ RateIdle
    /\ ArrIdle
    /\ AnIdle
    /\ AgentIdle
    /\ TlIdle
    /\ ExpIdle
    /\ \E c \in FireCentres, o \in TargetOffsets, h \in BOOLEAN, w \in FactorWindDirs :
          dfIn = [fire_center |-> c,
                  target_point |-> IF h THEN [x |-> c.x + o.x, y |-> c.y + o.y]
                                   ELSE [x |-> 0, y |-> 0],
                  has_target |-> h, wind_dir |-> w]
    /\ dfOut = DfNotCalled

CalculateDirectionalFactor ==
    /\ pc = "ready"
    /\ dfOut' = [status |-> "returned",
                 factor |-> directional_factor_call(dfIn.fire_center,
                                dfIn.target_point, dfIn.has_target, dfIn.wind_dir),
                 reached |-> AngleDiffReached(dfIn.has_target, dfIn.wind_dir),
                 angle_diff |-> angle_diff_local(dfIn.fire_center,
                                    dfIn.target_point, dfIn.has_target, dfIn.wind_dir)]
    /\ pc' = "done"
    /\ calls' = calls + 1
    /\ UNCHANGED <<dfIn, rateVars, arrVars, anVars, agentVars, tlVars, expVars, orchVars>>

NextDirectional == CalculateDirectionalFactor

SpecDirectional == InitDirectional /\ [][NextDirectional]_vars

\* ------------------------------------------------------------------------
\* DisasterOrchestrator.process_disaster and the socket handlers
\* (SpecOrchestrator); every run of the pipeline is a background task of its
\* own, so the runs interleave between their steps
\* ------------------------------------------------------------------------
InitOrchestrator ==
    /\ pc = "ready"
    /\ calls = 0
    /\ RateIdle
    /\ ArrIdle
    /\ AnIdle
    /\ AgentIdle
    /\ GeoIdle
    /\ OrchIdle

restVars == <<pc, calls, rateVars, arrVars, anVars, agentVars, geoVars>>

NextIdle(r) ==
    /\ runs[r].pc = "idle"
    /\ \A q \in RunIds : q < r => runs[q].pc # "idle"

\* the exit of process_disaster: what it returns or raises, and the disaster
\* it leaves behind
Leave(run, kind, exc, plan, disaster) ==
    [run EXCEPT !.outcome = [kind |-> kind, exc |-> exc, plan |-> plan,
                             status |-> disaster.status,
                             stored |-> disaster.plan,
                             error |-> disaster.error],
                !.exc = exc,
                !.pc = IF kind = "raised" /\ run.via = "socket"
                       THEN "socket_except" ELSE "done"]

FetchResultNeverNone(key, failed) ==
    [key |-> key, failed |-> failed, value |-> "data"]

FetchResult(key, failed) ==
    [key |-> key, failed |-> failed, value |-> IF failed THEN "None" ELSE "data"]

FetchNextPc(k) == IF k = Len(FetchSequence) THEN "data_ready" ELSE "fetch_all_data"

\* subscribe_disaster in real_apis mode
HandleSubscribeDisaster(r, trigger_data) ==
    /\ NextIdle(r)
    /\ runs' = [runs EXCEPT ![r] = [IdleRun EXCEPT !.pc = "task", !.via = "socket",
                                                   !.id = SubscribedId,
                                                   !.trigger_data = trigger_data]]
    /\ UNCHANGED <<active_disasters, unawaited, restVars>>

\* start_processing: the background task calls an async function, which only
\* creates a coroutine that nothing awaits
HandleStartProcessing ==
    /\ unawaited < MaxStartProcessing
    /\ unawaited' = unawaited + 1
    /\ UNCHANGED <<active_disasters, runs, restVars>>

\* a caller that awaits process_disaster itself
CallProcessDisaster(r, id) ==
    /\ NextIdle(r)
    /\ runs' = [runs EXCEPT ![r] = [IdleRun EXCEPT !.pc = "process_disaster",
                                                   !.via = "direct", !.id = id]]
    /\ UNCHANGED <<active_disasters, unawaited, restVars>>

ProcessDisasterWithOrchestrator(r) ==
    LET run == runs[r] IN
    /\ run.pc = "task"
    /\ IF active_disasters[run.id].status = "absent"
       THEN IF run.trigger_data = "null"
            THEN /\ runs' = [runs EXCEPT ![r] = [run EXCEPT !.pc = "socket_except",
                                                            !.exc = "AttributeError"]]
                 /\ UNCHANGED active_disasters
            ELSE /\ active_disasters' = [active_disasters EXCEPT ![run.id] =
                                            NewDisaster(run.trigger_data)]
                 /\ runs' = [runs EXCEPT ![r] = [run EXCEPT !.pc = "process_disaster",
                                                            !.trigger_data = "none"]]
       ELSE /\ runs' = [runs EXCEPT ![r] = [run EXCEPT !.pc = "process_disaster",
                                                       !.trigger_data = "none"]]
            /\ UNCHANGED active_disasters
    /\ UNCHANGED <<unawaited, restVars>>

ProcessDisaster(r) ==
    LET run == runs[r]
        disaster == active_disasters[run.id]
        started == emit(emit(run.events, StatusEvent("fetching_data")), ProgressEvent(10))
    IN
    /\ run.pc = "process_disaster"
    /\ IF disaster.status = "absent"
       THEN /\ runs' = [runs EXCEPT ![r] = Leave(run, "raised", "ValueError", NoPlan, disaster)]
            /\ UNCHANGED active_disasters
       ELSE /\ active_disasters' = [active_disasters EXCEPT ![run.id].status = "fetching_data"]
            /\ runs' = [runs EXCEPT ![r] =
                 CASE disaster.trigger = "malformed" ->
                        [run EXCEPT !.events = started, !.pc = "failed",
                                    !.exc = "AttributeError"]
                   [] disaster.trigger \in {"july", "march"} ->
                        [run EXCEPT !.events = started, !.pc = "data_ready"]
                   [] OTHER ->
                        [run EXCEPT !.events = started, !.pc = "fetch_all_data"]]
    /\ UNCHANGED <<unawaited, restVars>>

\* one turn of the loop of _fetch_all_data
FetchAllData(r) ==
    LET run == runs[r]
        k == Len(run.results) + 1
        src == FetchSequence[k]
    IN
    /\ run.pc = "fetch_all_data"
    /\ \E failed \in BOOLEAN :
         runs' = [runs EXCEPT ![r] = [run EXCEPT
                    !.events = emit(emit(@, ProgressEvent(src.progress_pct)),
                                    ProgressEvent(src.progress_pct + 1)),
                    !.results = Append(@, FetchResult(src.key, failed)),
                    !.pc = FetchNextPc(k)]]
    /\ UNCHANGED <<active_disasters, unawaited, restVars>>

\* the data is stored in the disaster and the analysis starts
StartAnalysis(r) ==
    LET run == runs[r] IN
    /\ run.pc = "data_ready"
    /\ run.via # "fetch"
    /\ active_disasters' = [active_disasters EXCEPT ![run.id].status = "analyzing"]
    /\ runs' = [runs EXCEPT ![r] = [run EXCEPT
                  !.events = emit(emit(@, StatusEvent("analyzing")), ProgressEvent(30)),
                  !.results = <<>>, !.step = 0, !.pc = "run_all_agents"]]
    /\ UNCHANGED <<unawaited, restVars>>

\* one agent of _run_all_agents
RunAllAgents(r) ==
    LET run == runs[r]
        k == run.step + 1
        announced == emit(run.events, ProgressEvent(AgentProgress[k]))
    IN
    /\ run.pc = "run_all_agents"
    /\ \E ok \in BOOLEAN :
         runs' = [runs EXCEPT ![r] =
            IF ok
            THEN [run EXCEPT !.events = announced, !.step = k,
                             !.pc = IF k = Len(AgentProgress) THEN "synthesis"
                                    ELSE "run_all_agents"]
            ELSE [run EXCEPT !.events = announced, !.pc = "failed",
                             !.exc = "AgentError"]]
    /\ UNCHANGED <<active_disasters, unawaited, restVars>>

StartSynthesis(r) ==
    LET run == runs[r] IN
    /\ run.pc = "synthesis"
    /\ active_disasters' = [active_disasters EXCEPT ![run.id].status = "generating_plan"]
    /\ runs' = [runs EXCEPT ![r] = [run EXCEPT
                  !.events = emit(emit(@, StatusEvent("generating_plan")), ProgressEvent(70)),
                  !.pc = "call_llm_api"]]
    /\ UNCHANGED <<unawaited, restVars>>

LlmOutcomes == {"no_key", "failed", "ok"}

CallLlmApi(r) ==
    LET run == runs[r] IN
    /\ run.pc = "call_llm_api"
    /\ \E o \in LlmOutcomes :
         runs' = [runs EXCEPT ![r] = [run EXCEPT
                    !.events = CASE o = "no_key" -> @
                                 [] o = "failed" -> emit(@, ProgressEvent(85))
                                 [] OTHER -> emit(emit(@, ProgressEvent(85)), ProgressEvent(95)),
                    !.final_plan = FinalPlan(r),
                    !.pc = "complete"]]
    /\ UNCHANGED <<active_disasters, unawaited, restVars>>

Complete(r) ==
    LET run == runs[r]
        disaster == [active_disasters[run.id] EXCEPT !.plan = run.final_plan,
                                                     !.status = "complete"]
    IN
    /\ run.pc = "complete"
    /\ active_disasters' = [active_disasters EXCEPT ![run.id] = disaster]
    /\ runs' = [runs EXCEPT ![r] =
                  Leave([run EXCEPT !.events = emit(@, CompleteEvent)],
                        "returned", "none", run.final_plan, disaster)]
    /\ UNCHANGED <<unawaited, restVars>>

\* the except clause of process_disaster
HandleFailure(r) ==
    LET run == runs[r]
        disaster == active_disasters[run.id]
        errored == [disaster EXCEPT !.status = "error", !.error = run.exc]
    IN
    /\ run.pc = "failed"
    /\ \E cache_available \in BOOLEAN :
         CASE disaster.trigger = "malformed" ->
                /\ runs' = [runs EXCEPT ![r] =
                              Leave(run, "raised", "AttributeError", NoPlan, disaster)]
                /\ UNCHANGED active_disasters
           [] disaster.trigger = "july" /\ cache_available ->
                /\ runs' = [runs EXCEPT ![r] = [run EXCEPT !.pc = "load_cached_response",
                                                           !.step = 0]]
                /\ UNCHANGED active_disasters
           [] OTHER ->
                /\ active_disasters' = [active_disasters EXCEPT ![run.id] = errored]
                /\ runs' = [runs EXCEPT ![r] =
                              Leave([run EXCEPT !.events = emit(@, ErrorEvent)],
                                    "raised", run.exc, NoPlan, errored)]
    /\ UNCHANGED <<unawaited, restVars>>

\* _load_cached_response as the fallback: one progress event after each sleep,
\* then the cache is read
LoadCachedResponse(r) ==
    LET run == runs[r]
        k == run.step + 1
        announced == emit(run.events, ProgressEvent(FallbackProgress[k]))
        disaster == active_disasters[run.id]
        loaded == [disaster EXCEPT !.plan = CachedPlan, !.status = "complete"]
        errored == [disaster EXCEPT !.status = "error", !.error = "CacheError"]
    IN
    /\ run.pc = "load_cached_response"
    /\ IF k < Len(FallbackProgress)
       THEN /\ runs' = [runs EXCEPT ![r] = [run EXCEPT !.events = announced, !.step = k]]
            /\ UNCHANGED active_disasters
       ELSE \E cached \in BOOLEAN :
              IF cached
              THEN /\ active_disasters' = [active_disasters EXCEPT ![run.id] = loaded]
                   /\ runs' = [runs EXCEPT ![r] =
                                 Leave([run EXCEPT !.events = emit(announced, CompleteEvent),
                                                   !.step = k],
                                       "returned", "none", loaded.plan, loaded)]
              ELSE /\ active_disasters' = [active_disasters EXCEPT ![run.id] = errored]
                   /\ runs' = [runs EXCEPT ![r] =
                                 Leave([run EXCEPT !.events = emit(announced, ErrorEvent),
                                                   !.step = k],
                                       "raised", "CacheError", NoPlan, errored)]
    /\ UNCHANGED <<unawaited, restVars>>

\* the except clause of process_disaster_with_orchestrator
SocketExcept(r) ==
    LET run == runs[r] IN
    /\ run.pc = "socket_except"
    /\ runs' = [runs EXCEPT ![r] = [run EXCEPT !.events = emit(@, ErrorEvent),
                                               !.pc = "done"]]
    /\ UNCHANGED <<active_disasters, unawaited, restVars>>

NextOrchestrator ==
    \/ \E r \in RunIds, td \in TriggerData : HandleSubscribeDisaster(r, td)
    \/ HandleStartProcessing
    \/ \E r \in RunIds, id \in DisasterIds : CallProcessDisaster(r, id)
    \/ \E r \in RunIds : ProcessDisasterWithOrchestrator(r)
    \/ \E r \in RunIds : ProcessDisaster(r)
    \/ \E r \in RunIds : FetchAllData(r)
    \/ \E r \in RunIds : StartAnalysis(r)
    \/ \E r \in RunIds : RunAllAgents(r)
    \/ \E r \in RunIds : StartSynthesis(r)
    \/ \E r \in RunIds : CallLlmApi(r)
    \/ \E r \in RunIds : Complete(r)
    \/ \E r \in RunIds : HandleFailure(r)
    \/ \E r \in RunIds : LoadCachedResponse(r)
    \/ \E r \in RunIds : SocketExcept(r)

SpecOrchestrator == InitOrchestrator /\ [][NextOrchestrator]_vars

\* ------------------------------------------------------------------------
\* DisasterOrchestrator._fetch_all_data called once (SpecFetch)
\* ------------------------------------------------------------------------
FetchCall ==
    [IdleRun EXCEPT !.pc = "fetch_all_data", !.via = "fetch", !.id = SubscribedId]

InitFetch ==
    /\ pc = "ready"
    /\ calls = 0
    /\ RateIdle
    /\ ArrIdle
    /\ AnIdle
    /\ AgentIdle
    /\ GeoIdle
    /\ active_disasters = [i \in DisasterIds |-> NoDisaster]
    /\ runs = [r \in RunIds |-> IF r = 1 THEN FetchCall ELSE IdleRun]
    /\ unawaited = 0

NextFetch == \E r \in RunIds : FetchAllData(r)

SpecFetch == InitFetch /\ [][NextFetch]_vars


\* ------------------------------------------------------------------------
\* Properties of PredictionAgent.analyze (checked under Spec)
\* ------------------------------------------------------------------------
AnDone == pc = "done" /\ anOut.status # "none"

\* C1: analyze, called with any disaster type other than 'wildfire' ('flood'
\* included) and no scenario override, returns a not-implemented placeholder
\* (status 'not_implemented') and does not raise.
C1_PlaceholderForOtherTypes ==
    AnDone /\ DisasterType(anIn.disaster) # "wildfire" /\ anIn.scenario_config = ""
        => /\ anOut.status = "returned"
           /\ anOut.result.status = "not_implemented"

UnknownTypeRaises ==
    /\ anOut.status = "raised"
    /\ anOut.exc = "ValueError"
    /\ anOut.msg = <<"Unknown disaster type: ", DisasterType(anIn.disaster)>>
    /\ anOut.result = NoResult

\* C2 (as claimed): analyze, called with a disaster type that is neither
\* 'wildfire' nor 'flood', raises ValueError 'Unknown disaster type: <type>'
\* and returns no result.
C2_UnknownTypeRaises ==
    AnDone /\ DisasterType(anIn.disaster) \notin {"wildfire", "flood"}
        => UnknownTypeRaises

\* C2 (amended): the same, for a call whose scenario_config is absent or is
\* not the july_2020_backtest scenario.
C2_UnknownTypeRaisesWithoutJuly ==
    AnDone /\ DisasterType(anIn.disaster) \notin {"wildfire", "flood"}
           /\ anIn.scenario_config # "july_2020_backtest"
        => UnknownTypeRaises

C2_Witness ==
    /\ AnDone
    /\ anIn.disaster.type = "earthquake"
    /\ anIn.scenario_config = ""
    /\ UnknownTypeRaises

\* C3: for a wildfire, analyze never raises because of bad input data; it
\* returns a result with current_spread_rate_kmh, predictions,
\* critical_arrival_times and factors.
C3_WildfireNeverRaises ==
    AnDone /\ DisasterType(anIn.disaster) = "wildfire"
        => /\ anOut.status = "returned"
           /\ anOut.result.kind \in {"wildfire", "july_2020_backtest"}

\* ------------------------------------------------------------------------
\* Properties of _calculate_fire_spread_rate (checked under SpecRate)
\* ------------------------------------------------------------------------
\* the documented reading of the weather fields: the supplied value when it
\* is present, numeric and inside its documented range, the documented
\* default otherwise
SuppliedWind(w) == IF w.wind.k = "map" THEN w.wind ELSE EmptyWind
SuppliedMain(w) == IF w.main.k = "map" THEN w.main ELSE EmptyMain

DocWindMs(w) ==
    LET v == SuppliedWind(w).speed
    IN  IF v.k = "num" /\ v.n >= 0 THEN v.n ELSE 1000

DocDirection(w) ==
    LET v == SuppliedWind(w).deg
    IN  IF v.k = "num" /\ v.n >= 0 /\ v.n < 360 THEN v.n ELSE 0

DocTemperature(w) ==
    LET v == SuppliedMain(w).temp
    IN  IF v.k = "num" THEN v.n ELSE 20

DocHumidity(w) ==
    LET v == SuppliedMain(w).humidity
    IN  IF v.k = "num" /\ v.n >= 0 /\ v.n <= 100 THEN v.n ELSE 50

RateDone == pc = "done" /\ rateOut.status = "ok"

\* C4: _calculate_fire_spread_rate never raises for malformed weather input;
\* whatever is missing, non-numeric, of the wrong type or out of range, it
\* returns a (spread_rate, factors) pair.
C4_NeverRaises == pc = "done" => rateOut.status = "ok"

DocFieldsHeld ==
    /\ rateOut.factors.wind_direction_deg = DocDirection(weather)
    /\ rateOut.factors.temperature_c = DocTemperature(weather)
    /\ rateOut.factors.humidity_percent = DocHumidity(weather)

\* C5 (as claimed): the factors hold the supplied value when it is valid and
\* the documented default otherwise, and wind_speed_kmh equals the effective
\* wind speed in m/s times 3.6 (here: in 1/1000 km/h).
C5_FactorsExact ==
    RateDone =>
        /\ DocFieldsHeld
        /\ rateOut.factors.wind_speed_kmh * 10 = DocWindMs(weather) * 36

\* C5 (amended): as above, with wind_speed_kmh equal to the effective wind
\* speed in m/s times 3.6 rounded to two decimals.
C5_FactorsRounded ==
    RateDone =>
        /\ DocFieldsHeld
        /\ rateOut.factors.wind_speed_kmh = RoundDiv(DocWindMs(weather) * 36, 10)

\* a returned call in which a field was defaulted and 3.6 * speed has three
\* decimals
C5_Witness ==
    /\ RateDone
    /\ weather.wind.k = "map"
    /\ weather.wind.speed = Num(463)
    /\ weather.wind.deg = Num(360)
    /\ rateOut.factors.wind_speed_kmh = 1667
    /\ rateOut.factors.wind_direction_deg = 0

\* the three factors of the documented formula, over 50000, 40 and 100
DocWindFactor(w) == Max(25000, 50000 + 36 * DocWindMs(w))
DocTempFactor(w) == Max(20, 40 + (DocTemperature(w) - 20))
DocHumidityFactor(w) == Max(10, 150 - DocHumidity(w))

\* C6: the spread rate equals 2.0 * max(0.5, 1 + wind_kmh/50)
\* * max(0.5, 1 + (temp - 20)/40) * max(0.1, 1.5 - humidity/100) with
\* wind_kmh the effective wind speed in m/s times 3.6; empty weather gives
\* 3.44.
C6_Formula ==
    RateDone =>
        /\ rateOut.spread_rate * ((50000 * 40 * 100) \div RateDen)
              = 2 * DocWindFactor(weather) * DocTempFactor(weather)
                  * DocHumidityFactor(weather)
        /\ weather = EmptyWeather => rateOut.spread_rate = 344 * (RateDen \div 100)

C6_Witness ==
    /\ RateDone
    /\ weather = EmptyWeather
    /\ rateOut.spread_rate = 344 * (RateDen \div 100)

\* C7: whenever _calculate_fire_spread_rate returns, the spread rate is at
\* least 0.1 km/h.
C7_RateFloor == RateDone => rateOut.spread_rate >= RateDen \div 10

\* a returned call whose temperature factor sits on its floor
C7_Witness ==
    /\ RateDone
    /\ weather.main.k = "map"
    /\ weather.main.temp = Num(-30)
    /\ weather.main.humidity = Num(100)

ValidSpeed(w) ==
    /\ w.k = "map" /\ w.wind.k = "map"
    /\ w.wind.speed.k = "num" /\ w.wind.speed.n >= 0

SecondCallDone ==
    /\ RateDone
    /\ prevRateOut.status = "ok"
    /\ ValidSpeed(weather) /\ ValidSpeed(prevWeather)

\* C8: of two weather observations that differ only in wind speed, the one
\* with the higher wind speed has the strictly higher spread rate.
C8_WindMonotone ==
    SecondCallDone =>
        /\ prevWeather.wind.speed.n < weather.wind.speed.n
              => prevRateOut.spread_rate < rateOut.spread_rate
        /\ prevWeather.wind.speed.n > weather.wind.speed.n
              => prevRateOut.spread_rate > rateOut.spread_rate

C8_Witness ==
    /\ SecondCallDone
    /\ prevWeather.wind.speed = Num(0)
    /\ weather.wind.speed = Num(1500)
    /\ prevRateOut.spread_rate < rateOut.spread_rate

\* ------------------------------------------------------------------------
\* Properties of _calculate_arrival_times (checked under SpecArrival)
\* ------------------------------------------------------------------------
ArrDone == pc = "done" /\ arrOut.status # "none"

\* C9: the list returned by _calculate_arrival_times is sorted ascending by
\* the reported hours_until_arrival.
C9_Sorted ==
    ArrDone =>
        /\ arrOut.status = "ok"
        /\ \A i, j \in 1..Len(arrOut.times) :
              i < j => arrOut.times[i].hours_until_arrival
                          <= arrOut.times[j].hours_until_arrival

\* a call whose points arrive in the opposite order of their arrival times
C9_Witness ==
    /\ ArrDone
    /\ Len(arrIn.points) = 2
    /\ arrIn.points[1].name = "North" /\ arrIn.points[2].name = "East"
    /\ Len(arrOut.times) = 2
    /\ arrOut.times[1].location = "East" /\ arrOut.times[2].location = "North"
    /\ arrOut.times[1].hours_until_arrival < arrOut.times[2].hours_until_arrival

\* C10: _calculate_arrival_times returns an empty list, without raising,
\* whenever the perimeter is missing or the spread rate is <= 0, whatever
\* the critical points and the wind direction are.
C10_EmptyOnPrecondition ==
    ArrDone /\ (arrIn.boundary.k = "none" \/ arrIn.spread_rate <= 0)
        => arrOut.status = "ok" /\ arrOut.times = <<>>

\* a call with a perimeter, a usable point and spread rate 0, which only the
\* guard on the spread rate keeps from producing an entry
C10_Witness ==
    /\ ArrDone
    /\ arrIn.boundary.k = "poly"
    /\ arrIn.spread_rate = 0
    /\ \E i \in 1..Len(arrIn.points) : arrIn.points[i].kind = "dict"
    /\ arrOut.times = <<>>

\* C11: in every entry returned by _calculate_arrival_times, confidence is
\* 'high' exactly when the entry's reported hours_until_arrival is below 6
\* (60 tenths of an hour), and 'medium' otherwise.
C11_ConfidenceMatchesReported ==
    ArrDone =>
        \A i \in 1..Len(arrOut.times) :
            /\ arrOut.times[i].confidence \in {"high", "medium"}
            /\ arrOut.times[i].confidence = "high"
                  <=> arrOut.times[i].hours_until_arrival
                        < 10 * ARRIVAL_TIME_HIGH_CONFIDENCE_THRESHOLD

\* ------------------------------------------------------------------------
\* Properties of _generate_timeline_predictions (checked under SpecTimeline)
\* ------------------------------------------------------------------------
TlDone == pc = "done" /\ tlOut.status # "none"

\* C12: _generate_timeline_predictions returns exactly the horizons hour_1,
\* hour_3 and hour_6, with confidence exactly 0.70, 0.60 and 0.45 (strictly
\* decreasing as the horizon grows), for every perimeter and spread rate.
C12_HorizonsAndConfidence ==
    TlDone =>
        /\ tlOut.status = "returned"
        /\ DOMAIN tlOut.predictions = {1, 3, 6}
        /\ tlOut.predictions[1].confidence = 70
        /\ tlOut.predictions[3].confidence = 60
        /\ tlOut.predictions[6].confidence = 45
        /\ tlOut.predictions[1].confidence > tlOut.predictions[3].confidence
        /\ tlOut.predictions[3].confidence > tlOut.predictions[6].confidence

\* the call of the tests: the sample square at 2.5 km/h
C12_Witness ==
    /\ TlDone
    /\ tlIn.polygon = Rect(0, 0, 100, 100)
    /\ tlIn.spread_rate = 2500
    /\ tlOut.predictions[6].confidence = 45

\* C13: with perimeter None the function does not raise, and every horizon
\* has boundary None and area_km2 0.0 with its confidence populated;
\* _expand_polygon(None, d) is None and _calculate_polygon_area(None) is 0.0.
C13_NoPerimeter ==
    /\ TlDone /\ tlIn.polygon = NoBoundary =>
          /\ tlOut.status = "returned"
          /\ \A h \in DOMAIN tlOut.predictions :
                /\ tlOut.predictions[h].boundary = NoBoundary
                /\ tlOut.predictions[h].area_km2 = 0
                /\ tlOut.predictions[h].confidence = Confidence(h)
                /\ tlOut.predictions[h].confidence > 0
    /\ \A d \in {e \in ExpandDistances : e >= 0} :
          expand_polygon(NoBoundary, d) = [raised |-> FALSE, geom |-> NoBoundary]
    /\ \A g \in BOOLEAN : calculate_polygon_area(NoBoundary, g) = 0

C13_Witness ==
    /\ TlDone
    /\ tlIn.polygon = NoBoundary
    /\ tlIn.spread_rate = 2500
    /\ DOMAIN tlOut.predictions = {1, 3, 6}

\* C14: a negative spread rate is treated as 0 and never raises: every
\* horizon's boundary is the input perimeter unchanged and the three areas
\* equal the area of the input perimeter.
C14_NegativeRateIsZero ==
    TlDone /\ tlIn.spread_rate < 0 =>
        /\ tlOut.status = "returned"
        /\ \A h \in DOMAIN tlOut.predictions :
              /\ tlOut.predictions[h].boundary = tlIn.polygon
              /\ tlOut.predictions[h].area_km2 =
                    calculate_polygon_area(tlIn.polygon, tlIn.geod)

C14_Witness ==
    /\ TlDone
    /\ tlIn.spread_rate < 0
    /\ tlIn.polygon = Rect(0, 0, 100, 100)
    /\ tlOut.status = "returned"
    /\ tlOut.predictions[6].area_km2 > 0

\* a perimeter that encloses an area
NonDegenerate(polygon) ==
    polygon.k = "poly" /\ polygon.x1 > polygon.x0 /\ polygon.y1 > polygon.y0

SecondTimelineDone ==
    /\ TlDone
    /\ prevTlOut.status = "returned"
    /\ tlOut.status = "returned"

\* C15: for a spread rate computed from weather (a positive one) and a
\* non-degenerate perimeter the projected areas are positive and strictly
\* increasing with the horizon; and for the same perimeter a higher spread
\* rate gives a larger area at the same horizon.
C15_AreaMonotone ==
    /\ TlDone /\ NonDegenerate(tlIn.polygon) /\ tlIn.spread_rate > 0 =>
          /\ tlOut.status = "returned"
          /\ 0 < tlOut.predictions[1].area_km2
          /\ tlOut.predictions[1].area_km2 < tlOut.predictions[3].area_km2
          /\ tlOut.predictions[3].area_km2 < tlOut.predictions[6].area_km2
    /\ SecondTimelineDone /\ NonDegenerate(tlIn.polygon)
          /\ prevTlIn.spread_rate >= 0 /\ tlIn.spread_rate >= 0 =>
          \A h \in DOMAIN tlOut.predictions :
              /\ prevTlIn.spread_rate < tlIn.spread_rate
                    => prevTlOut.predictions[h].area_km2 < tlOut.predictions[h].area_km2
              /\ prevTlIn.spread_rate > tlIn.spread_rate
                    => prevTlOut.predictions[h].area_km2 > tlOut.predictions[h].area_km2

\* the sample square projected at 1 km/h and then at 2.5 km/h
C15_Witness ==
    /\ SecondTimelineDone
    /\ tlIn.polygon = Rect(0, 0, 100, 100)
    /\ prevTlIn.spread_rate = 1000
    /\ tlIn.spread_rate = 2500
    /\ prevTlOut.predictions[3].area_km2 < tlOut.predictions[3].area_km2
    /\ tlOut.predictions[1].area_km2 < tlOut.predictions[3].area_km2

\* ------------------------------------------------------------------------
\* Properties of _expand_polygon (checked under SpecExpand)
\* ------------------------------------------------------------------------
ExpDone == pc = "done" /\ expOut.status # "none"

\* C16: _expand_polygon raises for every call whose distance_km is negative;
\* it returns neither a polygon nor None for such a call.
C16_NegativeDistanceRaises ==
    ExpDone /\ expIn.distance_km < 0 => expOut.status = "raised"

\* ------------------------------------------------------------------------
\* Properties of _calculate_directional_factor (checked under SpecDirectional)
\* ------------------------------------------------------------------------
DfDone == pc = "done" /\ dfOut.status # "none"

\* C17: the directional factor lies in [0.5, 1.5] (1000..3000 in 1/2000) for
\* every fire centre, target point and wind direction, the value returned
\* on the error path included.
C17_FactorBounded ==
    DfDone => dfOut.factor >= 1000 /\ dfOut.factor <= 3000

\* a call that reaches the upper end of the range
C17_Witness ==
    /\ DfDone
    /\ dfIn.has_target
    /\ IsNumber(dfIn.wind_dir)
    /\ dfOut.factor = 3000

\* the compass bearing of the target point from the fire centre is b
TargetAtBearing(b) ==
    /\ dfIn.has_target
    /\ dfIn.target_point.x - dfIn.fire_center.x = BearingOffset(b).x
    /\ dfIn.target_point.y - dfIn.fire_center.y = BearingOffset(b).y

\* C18: with the wind direction in the meteorological 'from' convention, a
\* point directly downwind of the fire centre (at the compass bearing the
\* wind travels toward) gets factor 1.5, a point directly upwind 0.5 and a
\* point at right angles 1.0, for every wind direction.
C18_DownwindUpwindCrosswind ==
    DfDone /\ IsNumber(dfIn.wind_dir) /\ dfIn.wind_dir.n \in Bearings =>
        LET from == dfIn.wind_dir.n
            toward == (from + 180) % 360
        IN  \A b \in Bearings :
                TargetAtBearing(b) =>
                    /\ b = toward => dfOut.factor = 3000
                    /\ b = from => dfOut.factor = 1000
                    /\ b \in {(from + 90) % 360, (from + 270) % 360}
                          => dfOut.factor = 2000

PointNames(points) ==
    {points[i].name : i \in {j \in 1..Len(points) : points[j].kind = "dict"}}

\* C20: when the caller supplies a list of critical points,
\* critical_arrival_times of the wildfire result is computed for exactly
\* those points; the built-in list is used only when the caller gives none.
C20_CallerPointsUsed ==
    AnDone /\ anOut.status = "returned" /\ anOut.result.kind = "wildfire"
           /\ anIn.data.fire_perimeter.k = "poly"
           /\ anIn.data.critical_points # <<>>
        => {anOut.result.critical_arrival_times[i].location :
                i \in 1..Len(anOut.result.critical_arrival_times)}
             = PointNames(anIn.data.critical_points)

\* ------------------------------------------------------------------------
\* Further properties of _calculate_arrival_times (checked under SpecArrival)
\* ------------------------------------------------------------------------
\* every element of the list is a critical point: a mapping with 'name',
\* 'lat' and 'lon'
AllCriticalPoints(points) == \A i \in 1..Len(points) : points[i].kind = "dict"

\* the number of entries of a list of points, or of results, with a name
CountPoints(points, name) ==
    Cardinality({i \in 1..Len(points) : points[i].name = name})
CountEntries(times, name) ==
    Cardinality({i \in 1..Len(times) : times[i].location = name})

\* C21: given a perimeter and a positive spread rate, the function returns
\* exactly one entry per critical point passed in, each with the point's
\* name as location, a number hours_until_arrival and a confidence string.
C21_OneEntryPerPoint ==
    ArrDone /\ Truthy(arrIn.boundary) /\ arrIn.spread_rate > 0
            /\ AllCriticalPoints(arrIn.points) =>
        /\ Len(arrOut.times) = Len(arrIn.points)
        /\ \A i \in 1..Len(arrIn.points) :
              CountEntries(arrOut.times, arrIn.points[i].name)
                = CountPoints(arrIn.points, arrIn.points[i].name)
        /\ \A i \in 1..Len(arrOut.times) :
              /\ arrOut.times[i].hours_until_arrival \in 0..Infinity
              /\ arrOut.times[i].confidence \in {"high", "medium"}

\* two different critical points, one of them inside the perimeter
C21_Witness ==
    /\ ArrDone
    /\ Truthy(arrIn.boundary)
    /\ arrIn.spread_rate > 0
    /\ Len(arrIn.points) = 2
    /\ AllCriticalPoints(arrIn.points)
    /\ arrIn.points[1].name = "North"
    /\ arrIn.points[2].name = "Inside"
    /\ Len(arrOut.times) = 2
    /\ arrOut.times[1].location = "Inside"

\* two calls that differ in the spread rate only, both with a perimeter and
\* a positive rate, the second rate being the higher one
HigherRateSecond ==
    /\ ArrDone
    /\ prevArrOut.status # "none"
    /\ Truthy(arrIn.boundary)
    /\ prevArrIn.spread_rate > 0
    /\ arrIn.spread_rate > prevArrIn.spread_rate

\* C22 (as claimed): for the same perimeter, critical points and wind
\* direction, a higher spread rate gives a strictly smaller reported
\* hours_until_arrival at every position of the returned list.
C22_StrictlySmaller ==
    HigherRateSecond =>
        /\ Len(arrOut.times) = Len(prevArrOut.times)
        /\ \A i \in 1..Len(arrOut.times) :
              arrOut.times[i].hours_until_arrival
                < prevArrOut.times[i].hours_until_arrival

\* C22 (amended): the reported hours_until_arrival under the higher rate is
\* never larger at any position of the returned list.
C22_NeverLarger ==
    HigherRateSecond =>
        /\ Len(arrOut.times) = Len(prevArrOut.times)
        /\ \A i \in 1..Len(arrOut.times) :
              arrOut.times[i].hours_until_arrival
                <= prevArrOut.times[i].hours_until_arrival

\* a point inside the perimeter reports 0.0 at both rates while a point
\* outside it reports a smaller time at the higher rate
C22_Witness ==
    /\ HigherRateSecond
    /\ Len(arrOut.times) = 2
    /\ arrOut.times[1].hours_until_arrival = 0
    /\ prevArrOut.times[1].hours_until_arrival = 0
    /\ arrOut.times[2].hours_until_arrival < prevArrOut.times[2].hours_until_arrival

\* ------------------------------------------------------------------------
\* The angular difference inside _calculate_directional_factor
\* (checked under SpecDirectional)
\* ------------------------------------------------------------------------
\* C23: the computed angle_diff is the circular angular difference between
\* the target angle and the downwind angle and lies in [0, 180] degrees,
\* for every target angle in (-180, 180] and wind direction in [0, 360).
C23_AngleDiffRange ==
    DfDone /\ dfOut.reached /\ dfIn.wind_dir.n >= 0 /\ dfIn.wind_dir.n < 360 =>
        dfOut.angle_diff >= 0 /\ dfOut.angle_diff <= 180

\* ------------------------------------------------------------------------
\* The outlook of the wildfire result (checked under Spec)
\* ------------------------------------------------------------------------
\* C24: the outlook of a wildfire result is one of 'worsening', 'stable',
\* 'guarded', determined by the values the model produced: 'worsening' iff
\* spread rate >= 6 or (factors.wind_speed_kmh >= 45 and
\* factors.humidity_percent <= 35), otherwise 'stable' iff spread rate <= 3
\* and factors.humidity_percent >= 55, otherwise 'guarded'.
C24_OutlookFromFactors ==
    AnDone /\ anOut.status = "returned" /\ anOut.result.kind = "wildfire" =>
        LET rate == calculate_fire_spread_rate(WeatherOf(anIn.data)).spread_rate
            f == anOut.result.factors
            worsening == \/ rate >= 6 * RateDen
                         \/ f.wind_speed_kmh >= 4500 /\ f.humidity_percent <= 35
            stable == rate <= 3 * RateDen /\ f.humidity_percent >= 55
        IN  /\ anOut.result.outlook \in {"worsening", "stable", "guarded"}
            /\ anOut.result.outlook =
                  IF worsening THEN "worsening"
                  ELSE IF stable THEN "stable" ELSE "guarded"

\* ------------------------------------------------------------------------
\* Distances passed to _expand_polygon (checked under SpecTimeline)
\* ------------------------------------------------------------------------
\* C25: for every spread rate, positive, zero or negative,
\* _generate_timeline_predictions calls _expand_polygon only with a
\* distance >= 0, so the negative-distance error is raised neither from
\* the timeline nor from PredictionAgent.analyze.
C25_NoNegativeDistance ==
    /\ TlDone =>
          /\ tlOut.status = "returned"
          /\ \A d \in tlOut.distances : d >= 0
    /\ \A c \in RepeatedCalls :
          analyze(c.disaster, c.data, c.scenario_config, FALSE).msg
            # <<"Buffer distance cannot be negative">>

\* a call with the smallest negative rate of the inputs and a perimeter
C25_Witness ==
    /\ TlDone
    /\ tlIn.spread_rate = -1
    /\ tlIn.polygon.k = "poly"
    /\ tlOut.distances = {0}

ProgressOf(events) == SelectSeq(events, LAMBDA e : e.event = "progress")

\* C27: within one run of process_disaster the percentages of the 'progress'
\* events emitted to the room never decrease from one event to the next.
C27_ProgressNeverDecreases ==
    \A r \in RunIds :
      LET p == ProgressOf(runs[r].events) IN
      \A i \in 1..(Len(p) - 1) : p[i].progress <= p[i + 1].progress

StatusRank(s) ==
    CASE s = "absent" -> 0
      [] s = "initializing" -> 1
      [] s = "fetching_data" -> 2
      [] s = "analyzing" -> 3
      [] s = "generating_plan" -> 4
      [] OTHER -> 5

\* C28: a disaster's status only moves forward through initializing,
\* fetching_data, analyzing, generating_plan and then complete or error:
\* whatever subscribe_disaster and start_processing events arrive, it never
\* returns to an earlier status, and a non-null plan is stored only while the
\* status is 'complete'.
OnlySocketRuns == \A r \in RunIds : runs[r].via \in {"none", "socket"}

C28_StatusForward ==
    /\ [](OnlySocketRuns =>
            \A id \in DisasterIds :
              active_disasters[id].plan # NoPlan => active_disasters[id].status = "complete")
    /\ [][OnlySocketRuns =>
            \A id \in DisasterIds :
              StatusRank(active_disasters'[id].status) >= StatusRank(active_disasters[id].status)]_vars

Terminal(e) == e.event \in {"disaster_complete", "disaster_error"}

\* C29: every processing run started through subscribe_disaster in real_apis
\* mode sends the room exactly one terminal event, disaster_complete or
\* disaster_error, and no event of the run follows it.
C29_OneTerminalEvent ==
    \A r \in RunIds :
      runs[r].via = "socket" =>
        LET ev == runs[r].events
            n == Len(SelectSeq(ev, Terminal))
        IN /\ n <= 1
           /\ n = 1 => Terminal(ev[Len(ev)])
           /\ runs[r].pc = "done" => n = 1

\* ------------------------------------------------------------------------
\* Properties of DisasterOrchestrator._fetch_all_data (checked under SpecFetch)
\* ------------------------------------------------------------------------
SourceOrder ==
    <<"satellite", "weather_current", "weather_forecast", "population",
      "infrastructure", "roads">>

\* C30: _fetch_all_data fetches the six sources in the order satellite,
\* weather_current, weather_forecast, population, infrastructure, roads; a
\* source that fails sets only its own key to None and the later sources are
\* still fetched, so the mapping returned has all six keys.
C30_SixSourcesInOrder ==
    \A r \in RunIds :
      runs[r].via = "fetch" =>
        LET res == runs[r].results IN
        /\ Len(res) <= Len(SourceOrder)
        /\ \A k \in 1..Len(res) :
             /\ res[k].key = SourceOrder[k]
             /\ res[k].value = "None" <=> res[k].failed
        /\ Len(runs[r].events) = 2 * Len(res)
        /\ runs[r].pc \in {"fetch_all_data", "data_ready"}
        /\ runs[r].pc = "data_ready" <=> Len(res) = Len(SourceOrder)

C30_Witness ==
    \E r \in RunIds :
      /\ runs[r].via = "fetch"
      /\ runs[r].pc = "data_ready"
      /\ runs[r].results[1].failed
      /\ runs[r].results[3].failed
      /\ ~runs[r].results[4].failed
      /\ runs[r].results[6].value = "data"


====
